---- MODULE Spec2Model ----
(***************************************************************************)
(* Point extraction and reconciliation engine of net_cdf_processing:       *)
(* ClimateDataExtractorWithParallel.py (sequential and parallel extraction *)
(* of combined historical + forecast series) and ClimateDataExtractor.py   *)
(* (extract_amber_data / extract_forecast_data).                           *)
(*                                                                         *)
(* Coordinates are integers (degrees), values are integers in hundredths   *)
(* of a unit, dates are day numbers.  Python's 0-based indices are kept    *)
(* for loop counters; sequences are 1-based.                               *)
(***************************************************************************)
EXTENDS Integers, Sequences, FiniteSets, TLC

\* ------------------------------------------------------------------ bounds
NLat == 2
MaxBatchSize == 2
MaxPoints == 3
MaxProcesses == 2
HistDays == 2
MaxHistLen == 3
MaxFcLen == 2
MaxFcStart == 2
FcDays == 2
FirstYear == 2023
NumYears == 5

\* ------------------------------------------------- values of the program
\* None and 0 are both falsy in `if max_points and ...`; one value stands for both.
None == 0
\* `count` before the first iteration of `for count, ... in enumerate(...)`.
Unbound == -1
\* The missing-value sentinel of a series (NaN).
NaN == -999999
\* 273.15 K in hundredths.
KelvinOffset == 27315
HoursPerDay == 24

Min(a, b) == IF a < b THEN a ELSE b
Max(a, b) == IF a > b THEN a ELSE b
Abs(a) == IF a < 0 THEN -a ELSE a

\* A row of a series: one calendar date and the tracked variables.
Row(d, tas, rsds) == [date |-> d, tas |-> tas, rsds |-> rsds]

EmptyDict == [k \in {} |-> <<>>]

\* dict.update(other)
Update(d, other) ==
    [k \in (DOMAIN d) \cup (DOMAIN other) |->
        IF k \in DOMAIN other THEN other[k] ELSE d[k]]

\* ------------------------------------------------------------ UnitConverter
ConvertTas(v) == IF v = NaN THEN NaN ELSE v - KelvinOffset
ConvertRsds(v) == IF v = NaN THEN NaN ELSE v * HoursPerDay

\* _convert_forecast_to_historical_units / _convert_forecast_to_amber_units:
\* the values of the returned frame.
ConvertForecastUnits(df) ==
    [n \in 1..Len(df) |->
        Row(df[n].date, ConvertTas(df[n].tas), ConvertRsds(df[n].rsds))]

\* ---------------------------------------------------------- SeriesCombiner
RowValid(r) == r.tas # NaN \/ r.rsds # NaN

\* DataFrame.last_valid_index(): the label of the last row holding a non-NA
\* value, None (0 here: dates start at 1) when there is none.
LastValidPos(df) ==
    IF \E n \in 1..Len(df) : RowValid(df[n])
    THEN CHOOSE n \in 1..Len(df) :
            RowValid(df[n]) /\ \A m \in (n+1)..Len(df) : ~RowValid(df[m])
    ELSE 0

LastValidIndex(df) == IF LastValidPos(df) = 0 THEN None ELSE df[LastValidPos(df)].date

\* df.loc[:label] on a date-ascending index; df.loc[:None] is df.loc[:].
LocUpTo(df, label) ==
    IF label = None THEN df
    ELSE SelectSeq(df, LAMBDA r : r.date <= label)

\* index.duplicated(keep="first") at position n
Duplicated(df, n) == \E m \in 1..(n - 1) : df[m].date = df[n].date

RECURSIVE KeepFirstFrom(_, _)
KeepFirstFrom(df, n) ==
    IF n > Len(df) THEN <<>>
    ELSE (IF Duplicated(df, n) THEN <<>> ELSE <<df[n]>>) \o KeepFirstFrom(df, n + 1)

\* index.duplicated(keep="last") at position n
DuplicatedLater(df, n) == \E m \in (n + 1)..Len(df) : df[m].date = df[n].date

\* DropDuplicatedKeepFirst keeping the last row of a date (keep="last").
DropDuplicatedKeepLast(df) ==
    LET kept == {n \in 1..Len(df) : ~DuplicatedLater(df, n)}
    IN [k \in 1..Cardinality(kept) |->
            df[CHOOSE n \in kept : Cardinality({m \in kept : m < n}) = k - 1]]

\* combined_df[~combined_df.index.duplicated(keep="first")]
DropDuplicatedKeepFirst(df) == KeepFirstFrom(df, 1)

CombineDataframes(historical_df, forecast_df) ==
    LET last_valid_historical == LastValidIndex(historical_df)
        truncated == LocUpTo(historical_df, last_valid_historical)
        combined_df == truncated \o forecast_df
    IN DropDuplicatedKeepFirst(combined_df)

\* ------------------------------------------------------- gridded datasets
\* ds["lat"].values, ds["lon"].values: monotonic coordinate axes.
lats == [a \in 1..NLat |-> 50 + a]
lons == <<9, 10>>
NLon == Len(lons)

Cells == (1..NLat) \X (1..NLon)

\* The historical cube: HistDays daily rows per cell; in cells with an odd
\* index sum the newest row is not filled in yet (all variables missing).
HistoricalSeries(a, b) ==
    [d \in 1..HistDays |->
        IF d = HistDays /\ (a + b) % 2 = 1
        THEN Row(d, NaN, NaN)
        ELSE Row(d, 100 * a + 10 * b + d, 10 * d + b)]

\* The forecast cube: starts on the last historical day, in Kelvin and as a
\* daily mean rate.
ForecastSeries(a, b) ==
    [n \in 1..FcDays |->
        Row(HistDays + n - 1,
            KelvinOffset + 1000 + 100 * a + 10 * b + n,
            a + b + n)]

HistoricalDataset ==
    [lat |-> lats, lon |-> lons,
     cells |-> [c \in Cells |-> HistoricalSeries(c[1], c[2])]]

ForecastDataset ==
    [lat |-> lats, lon |-> lons,
     cells |-> [c \in Cells |-> ForecastSeries(c[1], c[2])]]

\* .sel(..., method="nearest") on one axis: the closest axis value, the
\* earlier one on a tie.
Nearest(axis, x) ==
    CHOOSE n \in DOMAIN axis :
        \A m \in DOMAIN axis :
            \/ Abs(axis[n] - x) < Abs(axis[m] - x)
            \/ (Abs(axis[n] - x) = Abs(axis[m] - x) /\ n <= m)

\* _extract_point_data
ExtractPointData(dataset, lat, lon) ==
    dataset.cells[<<Nearest(dataset.lat, lat), Nearest(dataset.lon, lon)>>]

\* np.meshgrid(lons, lats)
lat_grid(a, b) == lats[a]
lon_grid(a, b) == lons[b]

\* np.where(mask): the true cells in row-major order.
RECURSIVE WhereFrom(_, _)
WhereFrom(mask, n) ==
    IF n >= NLat * NLon THEN <<>>
    ELSE LET c == <<(n \div NLon) + 1, (n % NLon) + 1>>
         IN (IF mask[c] THEN <<c>> ELSE <<>>) \o WhereFrom(mask, n + 1)

Where(mask) == WhereFrom(mask, 0)

\* Slice with its end taken inclusively.
SliceInclusive(seq, i, n) == SubSeq(seq, i + 1, Min(i + n + 1, Len(seq)))

\* seq[i : i + n] with Python's 0-based, end-clipped slice
Slice(seq, i, n) == SubSeq(seq, i + 1, Min(i + n, Len(seq)))

\* PointKey built from the latitude twice.
PointKeyLatOnly(lat, lon) == ToString(lat) \o "," \o ToString(lat)

\* f"{lat},{lon}"
PointKey(lat, lon) == ToString(lat) \o "," \o ToString(lon)

\* The value stored for one point by the combining extractions.
CombinedPoint(lat, lon) ==
    CombineDataframes(
        ExtractPointData(HistoricalDataset, lat, lon),
        ConvertForecastUnits(ExtractPointData(ForecastDataset, lat, lon)))

\* BatchLoop breaking one iteration late (i > limit).
RECURSIVE BatchLoopLateBreak(_, _, _, _, _)
BatchLoopLateBreak(lat_batch, lon_batch, limit, i, batch_results) ==
    IF i >= Min(Len(lat_batch), Len(lon_batch)) THEN batch_results
    ELSE IF limit # None /\ i > limit THEN batch_results
    ELSE BatchLoopLateBreak(lat_batch, lon_batch, limit, i + 1,
            Update(batch_results,
                   PointKey(lat_batch[i + 1], lon_batch[i + 1]) :>
                       CombinedPoint(lat_batch[i + 1], lon_batch[i + 1])))

\* The loop of _process_point_batch from iteration i on.
RECURSIVE BatchLoop(_, _, _, _, _)
BatchLoop(lat_batch, lon_batch, limit, i, batch_results) ==
    IF i >= Min(Len(lat_batch), Len(lon_batch)) THEN batch_results
    ELSE IF limit # None /\ i >= limit THEN batch_results
    ELSE BatchLoop(lat_batch, lon_batch, limit, i + 1,
            Update(batch_results,
                   PointKey(lat_batch[i + 1], lon_batch[i + 1]) :>
                       CombinedPoint(lat_batch[i + 1], lon_batch[i + 1])))

\* _process_point_batch
ProcessPointBatch(lat_batch, lon_batch, limit) ==
    BatchLoop(lat_batch, lon_batch, limit, 0, EmptyDict)

\* ------------------------------------------------------------------ state
VARIABLES
    entry,             \* the entry point this run calls
    mask,              \* np.load(mask_path)
    batch_size_arg,    \* the batch_size argument (None: derive it)
    max_points,        \* the max_points argument (None: no cap)
    num_processes,     \* os.cpu_count() or 1, also the pool's worker count
    pc,                \* where the entry point is
    historical_ds,     \* self.historical_ds / self.amber_ds: "None", "open", "closed"
    forecast_ds,       \* self.forecast_ds: "None", "open", "closed"
    batch_size,        \* the local batch_size after lines 144-147
    i,                 \* the loop's position in the valid points
    count,             \* the sequential loops' enumerate counter
    points_processed,  \* the submitted-count of the parallel run
    futures,           \* the futures list, in submission order
    df_dict,           \* the mapping being built
    ret,               \* the mapping returned (when pc = "returned")
    historical_df,     \* SeriesCombiner inputs and output (CombineSpec)
    forecast_df,
    combined_df,
    extracted_df,      \* the frame object _extract_point_data returned for the forecast
    given_df,          \* the frame object handed to the unit converter
    year,              \* retrieve_seasonal_forecasts arguments (DatesSpec)
    start_month,
    start_date_str,    \* 'YYYYMMDD' as its sequence of digits
    end_date_str

vars == <<entry, mask, batch_size_arg, max_points, num_processes, pc,
          historical_ds, forecast_ds, batch_size, i, count, points_processed,
          futures, df_dict, ret, historical_df, forecast_df, combined_df,
          extracted_df, given_df, year, start_month, start_date_str,
          end_date_str>>

params == <<entry, mask, batch_size_arg, max_points, num_processes>>
downloader == <<year, start_month, start_date_str, end_date_str>>
\* What the extraction entry points leave alone.
frames == <<historical_df, forecast_df, combined_df, extracted_df, given_df,
            downloader>>

Entries == {"extract_variables_over_years_parallel",
            "extract_variables_over_years",
            "extract_amber_data",
            "extract_forecast_data"}

\* valid_lat_indices, valid_lon_indices = np.where(mask), as index pairs
valid_indices == Where(mask)
\* np.count_nonzero(mask)
num_valid_points == Cardinality({c \in Cells : mask[c]})

\* lat_grid[valid_lat_indices[i : i + n], valid_lon_indices[i : i + n]]
LatBatch(valid, at, n) ==
    LET sl == Slice(valid, at, n)
    IN [k \in 1..Len(sl) |-> lat_grid(sl[k][1], sl[k][2])]

LonBatch(valid, at, n) ==
    LET sl == Slice(valid, at, n)
    IN [k \in 1..Len(sl) |-> lon_grid(sl[k][1], sl[k][2])]

\* ndarray_of_valid_lat_lon_tuples (valid_grid_points.npy): the coordinates
\* of the valid cells.
valid_lat_lon_tuples ==
    LET valid == valid_indices
    IN [k \in 1..Len(valid) |->
            <<lat_grid(valid[k][1], valid[k][2]), lon_grid(valid[k][1], valid[k][2])>>]

Init ==
    /\ entry \in Entries
    /\ mask \in [Cells -> BOOLEAN]
    /\ max_points \in 0..MaxPoints
    /\ IF entry = "extract_variables_over_years_parallel"
       THEN /\ batch_size_arg \in 0..MaxBatchSize
            /\ num_processes \in 1..MaxProcesses
       ELSE /\ batch_size_arg = None
            /\ num_processes = 1
    /\ pc = "start"
    /\ historical_ds = "None"
    /\ forecast_ds = "None"
    /\ batch_size = batch_size_arg
    /\ i = 0
    /\ count = Unbound
    /\ points_processed = 0
    /\ futures = <<>>
    /\ df_dict = EmptyDict
    /\ ret = EmptyDict
    /\ historical_df = <<>>
    /\ forecast_df = <<>>
    /\ combined_df = <<>>
    /\ extracted_df = <<>>
    /\ given_df = <<>>
    /\ year = 0
    /\ start_month = 0
    /\ start_date_str = <<>>
    /\ end_date_str = <<>>

\* --------------------------------- extract_variables_over_years_parallel
\* Lines 141-165: derive the batch size, load both datasets, return {} when
\* one of them was not found.
ParallelLoad(hist_found, fc_found) ==
    /\ entry = "extract_variables_over_years_parallel"
    /\ pc = "start"
    /\ batch_size' = IF batch_size_arg = None
                     THEN Max(1, num_valid_points \div num_processes)
                     ELSE batch_size_arg
    /\ historical_ds' = IF hist_found THEN "open" ELSE "None"
    /\ forecast_ds' = IF fc_found THEN "open" ELSE "None"
    /\ IF hist_found /\ fc_found
       THEN /\ pc' = "submit"
            /\ ret' = ret
       ELSE /\ pc' = "returned"
            /\ ret' = EmptyDict
    /\ UNCHANGED <<params, i, count, points_processed, futures, df_dict, frames>>

\* BatchLimit handing every batch the whole cap.
BatchLimitWholeCap(cap, submitted) == cap

\* The remaining budget handed to a batch (line 191-193).
BatchLimit(cap, submitted) == IF cap # None THEN cap - submitted ELSE None

\* CapReached comparing with > instead of >=.
CapReachedStrict(cap, submitted) == cap # None /\ submitted > cap

\* The guard of the submission loop's break (line 172).
CapReached(cap, submitted) == cap # None /\ submitted >= cap

\* One iteration of the submission loop (lines 170-196).
SubmitBatch ==
    /\ pc = "submit"
    /\ i < Len(valid_indices)
    /\ ~CapReached(max_points, points_processed)
    /\ LET valid == valid_indices
           lat_batch == LatBatch(valid, i, batch_size)
           lon_batch == LonBatch(valid, i, batch_size)
       IN /\ futures' = Append(futures,
                [lat_batch |-> lat_batch,
                 lon_batch |-> lon_batch,
                 max_points |-> BatchLimit(max_points, points_processed),
                 state |-> "pending",
                 result |-> EmptyDict,
                 collected |-> FALSE])
          /\ points_processed' = points_processed + Len(lat_batch)
    /\ i' = i + batch_size
    /\ UNCHANGED <<params, pc, historical_ds, forecast_ds, batch_size, count,
                   df_dict, ret, frames>>

\* The submission loop ends: range exhausted, or the break of line 173.
SubmitEnd ==
    /\ pc = "submit"
    /\ \/ i >= Len(valid_indices)
       \/ CapReached(max_points, points_processed)
    /\ pc' = "collect"
    /\ UNCHANGED <<params, historical_ds, forecast_ds, batch_size, i, count,
                   points_processed, futures, df_dict, ret, frames>>

Running == {f \in DOMAIN futures : futures[f].state = "running"}
Unfinished == {f \in DOMAIN futures : futures[f].state \in {"pending", "running"}}

\* The pool takes work items in submission order, one per free worker.
WorkerStart(f) ==
    /\ pc \in {"submit", "collect", "unwind"}
    /\ f \in DOMAIN futures
    /\ futures[f].state = "pending"
    /\ \A g \in 1..(f - 1) : futures[g].state # "pending"
    /\ Cardinality(Running) < num_processes
    /\ futures' = [futures EXCEPT ![f].state = "running"]
    /\ UNCHANGED <<params, pc, historical_ds, forecast_ds, batch_size, i, count,
                   points_processed, df_dict, ret, frames>>

\* A worker returns from _process_point_batch.
WorkerFinish(f) ==
    /\ pc \in {"submit", "collect", "unwind"}
    /\ f \in DOMAIN futures
    /\ futures[f].state = "running"
    /\ futures' = [futures EXCEPT
            ![f].state = "finished",
            ![f].result = ProcessPointBatch(futures[f].lat_batch,
                                            futures[f].lon_batch,
                                            futures[f].max_points)]
    /\ UNCHANGED <<params, pc, historical_ds, forecast_ds, batch_size, i, count,
                   points_processed, df_dict, ret, frames>>

\* A worker's call raises; the future holds the exception.
WorkerFail(f) ==
    /\ pc \in {"submit", "collect", "unwind"}
    /\ f \in DOMAIN futures
    /\ futures[f].state = "running"
    /\ futures' = [futures EXCEPT ![f].state = "failed"]
    /\ UNCHANGED <<params, pc, historical_ds, forecast_ds, batch_size, i, count,
                   points_processed, df_dict, ret, frames>>

\* Collect swallowing a failed batch's exception and going on.
CollectSkipFailed(f) ==
    /\ pc = "collect"
    /\ f \in DOMAIN futures
    /\ ~futures[f].collected
    /\ futures[f].state \in {"finished", "failed"}
    /\ futures' = [futures EXCEPT ![f].collected = TRUE]
    /\ pc' = pc
    /\ df_dict' = IF futures[f].state = "failed" THEN df_dict
                  ELSE Update(df_dict, futures[f].result)
    /\ UNCHANGED <<params, historical_ds, forecast_ds, batch_size, i, count,
                   points_processed, ret, frames>>

\* One iteration of `for future in as_completed(futures)` (lines 199-200):
\* future.result() returns the batch's mapping or re-raises its exception.
Collect(f) ==
    /\ pc = "collect"
    /\ f \in DOMAIN futures
    /\ ~futures[f].collected
    /\ futures[f].state \in {"finished", "failed"}
    /\ futures' = [futures EXCEPT ![f].collected = TRUE]
    /\ IF futures[f].state = "failed"
       THEN /\ pc' = "unwind"
            /\ df_dict' = df_dict
       ELSE /\ pc' = pc
            /\ df_dict' = Update(df_dict, futures[f].result)
    /\ UNCHANGED <<params, historical_ds, forecast_ds, batch_size, i, count,
                   points_processed, ret, frames>>

\* CollectEnd leaving the loop after the first collected future, the pool
\* not waited for.
CollectEndFirstCompleted ==
    /\ pc = "collect"
    /\ \E f \in DOMAIN futures : futures[f].collected
    /\ pc' = "close"
    /\ UNCHANGED <<params, historical_ds, forecast_ds, batch_size, i, count,
                   points_processed, futures, df_dict, ret, frames>>

\* as_completed is exhausted and the with block exits (shutdown(wait=True)).
CollectEnd ==
    /\ pc = "collect"
    /\ \A f \in DOMAIN futures : futures[f].collected
    /\ pc' = "close"
    /\ UNCHANGED <<params, historical_ds, forecast_ds, batch_size, i, count,
                   points_processed, futures, df_dict, ret, frames>>

\* The exception leaves the with block, whose exit waits for every worker,
\* and then the function.
Unwind ==
    /\ pc = "unwind"
    /\ Unfinished = {}
    /\ pc' = "raised"
    /\ UNCHANGED <<params, historical_ds, forecast_ds, batch_size, i, count,
                   points_processed, futures, df_dict, ret, frames>>

\* Lines 202-207.
ParallelClose ==
    /\ entry = "extract_variables_over_years_parallel"
    /\ pc = "close"
    /\ historical_ds' = "closed"
    /\ forecast_ds' = "closed"
    /\ ret' = df_dict
    /\ pc' = "returned"
    /\ UNCHANGED <<params, batch_size, i, count, points_processed, futures,
                   df_dict, frames>>

\* ------------------------------------------------ the sequential loops
\* One iteration of `for count, ... in enumerate(points)` with the
\* max_points break, storing `value` under `key`.
LoopIteration(key, value) ==
    /\ pc = "loop"
    /\ count' = i
    /\ IF CapReached(max_points, i)
       THEN /\ pc' = "close"
            /\ df_dict' = df_dict
            /\ i' = i
       ELSE /\ pc' = pc
            /\ df_dict' = Update(df_dict, key :> value)
            /\ i' = i + 1
    /\ UNCHANGED <<params, historical_ds, forecast_ds, batch_size,
                   points_processed, futures, ret, frames>>

\* The iterable is exhausted.
LoopEnd(length) ==
    /\ pc = "loop"
    /\ i >= length
    /\ pc' = "close"
    /\ UNCHANGED <<params, historical_ds, forecast_ds, batch_size, i, count,
                   points_processed, futures, df_dict, ret, frames>>

\* The print after the loop reads `count`: UnboundLocalError when the loop
\* body never ran.
AfterLoop ==
    /\ IF count = Unbound
       THEN /\ pc' = "raised"
            /\ ret' = ret
       ELSE /\ pc' = "returned"
            /\ ret' = df_dict
    /\ UNCHANGED <<params, batch_size, i, count, points_processed, futures,
                   df_dict, frames>>

\* ------------------------------------------ extract_variables_over_years
\* Lines 83-100: `_load_netcdf_data(...).load()` raises AttributeError on
\* the None the loader returns when it finds no file.
SequentialLoad(hist_found, fc_found) ==
    /\ entry = "extract_variables_over_years"
    /\ pc = "start"
    /\ historical_ds' = IF hist_found THEN "open" ELSE "None"
    /\ forecast_ds' = IF hist_found /\ fc_found THEN "open" ELSE "None"
    /\ pc' = IF hist_found /\ fc_found THEN "loop" ELSE "raised"
    /\ UNCHANGED <<params, batch_size, i, count, points_processed, futures,
                   df_dict, ret, frames>>

\* Lines 101-119.
SequentialStep ==
    /\ entry = "extract_variables_over_years"
    /\ i < Len(valid_indices)
    /\ LET idx == valid_indices[i + 1]
           lat == lat_grid(idx[1], idx[2])
           lon == lon_grid(idx[1], idx[2])
       IN LoopIteration(PointKey(lat, lon), CombinedPoint(lat, lon))

SequentialLoopEnd ==
    /\ entry = "extract_variables_over_years"
    /\ LoopEnd(Len(valid_indices))

\* Lines 121-126.
SequentialClose ==
    /\ entry = "extract_variables_over_years"
    /\ pc = "close"
    /\ historical_ds' = "closed"
    /\ forecast_ds' = "closed"
    /\ AfterLoop

\* --------------------------------- ClimateDataExtractor.extract_amber_data
\* Lines 80-88.
AmberLoad(found) ==
    /\ entry = "extract_amber_data"
    /\ pc = "start"
    /\ historical_ds' = IF found THEN "open" ELSE "None"
    /\ pc' = IF found THEN "loop" ELSE "raised"
    /\ UNCHANGED <<params, forecast_ds, batch_size, i, count, points_processed,
                   futures, df_dict, ret, frames>>

\* Lines 90-97.
AmberStep ==
    /\ entry = "extract_amber_data"
    /\ i < Len(valid_lat_lon_tuples)
    /\ LET lat == valid_lat_lon_tuples[i + 1][1]
           lon == valid_lat_lon_tuples[i + 1][2]
       IN LoopIteration(PointKey(lat, lon),
                        ExtractPointData(HistoricalDataset, lat, lon))

AmberLoopEnd ==
    /\ entry = "extract_amber_data"
    /\ LoopEnd(Len(valid_lat_lon_tuples))

\* Lines 99-101.
AmberClose ==
    /\ entry = "extract_amber_data"
    /\ pc = "close"
    /\ historical_ds' = "closed"
    /\ forecast_ds' = forecast_ds
    /\ AfterLoop

\* ------------------------------ ClimateDataExtractor.extract_forecast_data
\* Lines 113-121.
ForecastLoad(found) ==
    /\ entry = "extract_forecast_data"
    /\ pc = "start"
    /\ forecast_ds' = IF found THEN "open" ELSE "None"
    /\ pc' = IF found THEN "loop" ELSE "raised"
    /\ UNCHANGED <<params, historical_ds, batch_size, i, count,
                   points_processed, futures, df_dict, ret, frames>>

\* Lines 123-133.
ForecastStep ==
    /\ entry = "extract_forecast_data"
    /\ i < Len(valid_lat_lon_tuples)
    /\ LET lat == valid_lat_lon_tuples[i + 1][1]
           lon == valid_lat_lon_tuples[i + 1][2]
       IN LoopIteration(PointKey(lat, lon),
              ConvertForecastUnits(ExtractPointData(ForecastDataset, lat, lon)))

ForecastLoopEnd ==
    /\ entry = "extract_forecast_data"
    /\ LoopEnd(Len(valid_lat_lon_tuples))

\* Lines 135-137.
ForecastClose ==
    /\ entry = "extract_forecast_data"
    /\ pc = "close"
    /\ forecast_ds' = "closed"
    /\ historical_ds' = historical_ds
    /\ AfterLoop

Next ==
    \/ \E h, f \in BOOLEAN : ParallelLoad(h, f)
    \/ SubmitBatch
    \/ SubmitEnd
    \/ \E f \in DOMAIN futures : WorkerStart(f)
    \/ \E f \in DOMAIN futures : WorkerFinish(f)
    \/ \E f \in DOMAIN futures : WorkerFail(f)
    \/ \E f \in DOMAIN futures : Collect(f)
    \/ CollectEnd
    \/ Unwind
    \/ ParallelClose
    \/ \E h, f \in BOOLEAN : SequentialLoad(h, f)
    \/ SequentialStep
    \/ SequentialLoopEnd
    \/ SequentialClose
    \/ \E f \in BOOLEAN : AmberLoad(f)
    \/ AmberStep
    \/ AmberLoopEnd
    \/ AmberClose
    \/ \E f \in BOOLEAN : ForecastLoad(f)
    \/ ForecastStep
    \/ ForecastLoopEnd
    \/ ForecastClose

Spec == Init /\ [][Next]_vars

\* ------------------------------------------- SeriesCombiner on its own
\* The dates of a set in ascending order.
Ascending(S) ==
    [k \in 1..Cardinality(S) |->
        CHOOSE d \in S : Cardinality({e \in S : e < d}) = k - 1]

\* Historical frames: date-ascending rows, any variable possibly missing.
HistFrames ==
    UNION {{[k \in 1..Cardinality(S) |-> Row(Ascending(S)[k], t[k], r[k])] :
                t \in [1..Cardinality(S) -> {NaN, 500}],
                r \in [1..Cardinality(S) -> {NaN, 12}]} :
           S \in SUBSET (1..MaxHistLen)}

\* Forecast frames as extracted (Kelvin, daily mean rate): date-ascending
\* rows.
FcFrames ==
    UNION {{[k \in 1..Cardinality(S) |-> Row(Ascending(S)[k], t[k], 3)] :
                t \in [1..Cardinality(S) -> {NaN, KelvinOffset + 700}]} :
           S \in SUBSET (1..(MaxFcStart + MaxFcLen - 1))}

CombineInit ==
    /\ entry = "_combine_dataframes"
    /\ mask = [c \in Cells |-> FALSE]
    /\ batch_size_arg = None
    /\ max_points = None
    /\ num_processes = 1
    /\ pc = "frames"
    /\ historical_ds = "None"
    /\ forecast_ds = "None"
    /\ batch_size = None
    /\ i = 0
    /\ count = Unbound
    /\ points_processed = 0
    /\ futures = <<>>
    /\ df_dict = EmptyDict
    /\ ret = EmptyDict
    /\ historical_df \in HistFrames
    /\ forecast_df \in FcFrames
    /\ combined_df = <<>>
    /\ extracted_df = forecast_df
    /\ given_df = <<>>
    /\ year = 0
    /\ start_month = 0
    /\ start_date_str = <<>>
    /\ end_date_str = <<>>

\* forecast_df = self._convert_forecast_to_historical_units(forecast_df) in
\* _process_point_batch, (forecast_df.copy()) in the other callers: the
\* converter assigns the new values into the frame object it is handed and
\* returns that object.
ConvertFrame(with_copy) ==
    /\ pc = "frames"
    /\ given_df' = ConvertForecastUnits(forecast_df)
    /\ extracted_df' = IF with_copy THEN extracted_df ELSE given_df'
    /\ forecast_df' = given_df'
    /\ pc' = "converted"
    /\ UNCHANGED <<params, historical_ds, forecast_ds, batch_size, i, count,
                   points_processed, futures, df_dict, ret, historical_df,
                   combined_df, downloader>>

\* self._combine_dataframes(historical_df, forecast_df)
CombineFrames ==
    /\ pc = "converted"
    /\ combined_df' = CombineDataframes(historical_df, forecast_df)
    /\ pc' = "combined"
    /\ UNCHANGED <<params, historical_ds, forecast_ds, batch_size, i, count,
                   points_processed, futures, df_dict, ret, historical_df,
                   forecast_df, extracted_df, given_df, downloader>>

CombineNext == (\E with_copy \in BOOLEAN : ConvertFrame(with_copy)) \/ CombineFrames

CombineSpec == CombineInit /\ [][CombineNext]_vars

\* ------------------------------------------------ ClimateDataDownloader
\* A date string is the sequence of its decimal digits.
Years == FirstYear..(FirstYear + NumYears - 1)

RECURSIVE Pow10(_)
Pow10(n) == IF n = 0 THEN 1 ELSE 10 * Pow10(n - 1)

\* f"{n:0w}" for an n of at most w digits
Pad(n, w) == [k \in 1..w |-> (n \div Pow10(w - k)) % 10]

\* int() of a digit string
RECURSIVE ParseInt(_)
ParseInt(digits) ==
    IF digits = <<>> THEN 0
    ELSE 10 * ParseInt(SubSeq(digits, 1, Len(digits) - 1)) + digits[Len(digits)]

IsLeap(y) == (y % 4 = 0 /\ y % 100 # 0) \/ y % 400 = 0

DaysInMonth(y, m) ==
    IF m = 2 THEN (IF IsLeap(y) THEN 29 ELSE 28)
    ELSE IF m \in {4, 6, 9, 11} THEN 30 ELSE 31

Date(y, m, d) == [year |-> y, month |-> m, day |-> d]

\* datetime.strptime(s, "%Y%m%d")
Strptime(s) ==
    Date(ParseInt(SubSeq(s, 1, 4)), ParseInt(SubSeq(s, 5, 6)), ParseInt(SubSeq(s, 7, 8)))

\* date.strftime("%Y%m%d")
Strftime(date) == Pad(date.year, 4) \o Pad(date.month, 2) \o Pad(date.day, 2)

\* date + timedelta(days=-1)
MinusOneDay(date) ==
    IF date.day > 1 THEN Date(date.year, date.month, date.day - 1)
    ELSE IF date.month > 1
         THEN Date(date.year, date.month - 1, DaysInMonth(date.year, date.month - 1))
         ELSE Date(date.year - 1, 12, 31)

\* ClimateDataDownloader._calculate_end_date
CalculateEndDate(date_str) ==
    LET start_date == Strptime(date_str)
        future_year == start_date.year + (start_date.month + 6) \div 12
        month_mod == (start_date.month + 6) % 12
        future_month == IF month_mod = 0 THEN 12 ELSE month_mod
        future_date == MinusOneDay(Date(future_year, future_month, 1))
    IN Strftime(future_date)

DatesInit ==
    /\ entry = "retrieve_seasonal_forecasts"
    /\ mask = [c \in Cells |-> FALSE]
    /\ batch_size_arg = None
    /\ max_points = None
    /\ num_processes = 1
    /\ pc = "start"
    /\ historical_ds = "None"
    /\ forecast_ds = "None"
    /\ batch_size = None
    /\ i = 0
    /\ count = Unbound
    /\ points_processed = 0
    /\ futures = <<>>
    /\ df_dict = EmptyDict
    /\ ret = EmptyDict
    /\ historical_df = <<>>
    /\ forecast_df = <<>>
    /\ combined_df = <<>>
    /\ extracted_df = <<>>
    /\ given_df = <<>>
    /\ year \in Years
    /\ start_month \in 1..12
    /\ start_date_str = <<>>
    /\ end_date_str = <<>>

\* start_date_str = f"{year}{start_month:02}01"
FormatStartDate ==
    /\ entry = "retrieve_seasonal_forecasts"
    /\ pc = "start"
    /\ start_date_str' = Pad(year, 4) \o Pad(start_month, 2) \o Pad(1, 2)
    /\ pc' = "formatted"
    /\ UNCHANGED <<params, historical_ds, forecast_ds, batch_size, i, count,
                   points_processed, futures, df_dict, ret, historical_df,
                   forecast_df, combined_df, extracted_df, given_df, year,
                   start_month, end_date_str>>

\* end_date_str = self._calculate_end_date(start_date_str)
EndDate ==
    /\ entry = "retrieve_seasonal_forecasts"
    /\ pc = "formatted"
    /\ end_date_str' = CalculateEndDate(start_date_str)
    /\ pc' = "done"
    /\ UNCHANGED <<params, historical_ds, forecast_ds, batch_size, i, count,
                   points_processed, futures, df_dict, ret, historical_df,
                   forecast_df, combined_df, extracted_df, given_df, year,
                   start_month, start_date_str>>

DatesNext == FormatStartDate \/ EndDate

DatesSpec == DatesInit /\ [][DatesNext]_vars

\* ================================================================ claims
Parallel == entry = "extract_variables_over_years_parallel"
Ended == pc \in {"returned", "raised"}
Size(d) == Cardinality(DOMAIN d)

\* zip(lat_batch, lon_batch) of a submitted batch
BatchPoints(fut) ==
    [k \in 1..Min(Len(fut.lat_batch), Len(fut.lon_batch)) |->
        <<fut.lat_batch[k], fut.lon_batch[k]>>]

RECURSIVE ConcatBatches(_, _)
ConcatBatches(fs, n) ==
    IF n = 0 THEN <<>> ELSE ConcatBatches(fs, n - 1) \o BatchPoints(fs[n])

\* The number of entries the finished workers among the first n futures hold.
RECURSIVE ExtractedCount(_, _)
ExtractedCount(fs, n) ==
    IF n = 0 THEN 0
    ELSE ExtractedCount(fs, n - 1)
         + (IF fs[n].state = "finished" THEN Size(fs[n].result) ELSE 0)

\* The number of loop iterations a worker runs on its batch.
Iterations(fut) ==
    IF fut.max_points = None THEN Len(BatchPoints(fut))
    ELSE Min(Len(BatchPoints(fut)), fut.max_points)

\* The results of the collected futures among the first n, merged in
\* submission order, and the number of points their workers processed.
RECURSIVE MergedInOrder(_, _)
MergedInOrder(fs, n) ==
    IF n = 0 THEN EmptyDict
    ELSE IF fs[n].collected /\ fs[n].state = "finished"
         THEN Update(MergedInOrder(fs, n - 1), fs[n].result)
         ELSE MergedInOrder(fs, n - 1)

RECURSIVE CollectedIterations(_, _)
CollectedIterations(fs, n) ==
    IF n = 0 THEN 0
    ELSE CollectedIterations(fs, n - 1)
         + (IF fs[n].collected /\ fs[n].state = "finished"
            THEN Iterations(fs[n]) ELSE 0)

\* C1: with a positive max_points, whatever the mask, the batch size and the
\* completion order, the workers together extract at most max_points points,
\* and the mapping built and returned holds at most max_points entries.
C1_CapBoundsExtracted ==
    (Parallel /\ max_points > 0) =>
        /\ ExtractedCount(futures, Len(futures)) <= max_points
        /\ Size(df_dict) <= max_points
        /\ Size(ret) <= max_points

\* C1 witness: a returned run whose last batch was cut short by the cap.
C1_Witness ==
    /\ Parallel /\ pc = "returned" /\ max_points > 0
    /\ num_valid_points > max_points
    /\ Len(futures) >= 2
    /\ Size(futures[Len(futures)].result) < Len(futures[Len(futures)].lat_batch)
    /\ Size(ret) = max_points

\* C2: once the submitted-count has reached max_points no batch is
\* dispatched any more (and the count stays at or above the cap), so every
\* dispatch happens with the count strictly below the cap.
C2_NoDispatchAfterCap ==
    [][(max_points # None /\ points_processed >= max_points) =>
            (Len(futures') = Len(futures) /\ points_processed' >= max_points)]_vars

\* C2 witness: the cap stopped the submission with valid points left over.
C2_Witness ==
    /\ Parallel /\ pc = "collect" /\ max_points > 0
    /\ points_processed >= max_points
    /\ i < Len(valid_indices)
    /\ Len(futures) >= 1

\* C3: with no cap, the batches dispatched so far are contiguous slices
\* whose concatenation is the input point sequence up to the loop's
\* position, the whole input once the loop has ended; every batch but the
\* last holds batch_size points, the last between 1 and batch_size.
C3_BatchesPartitionInput ==
    (Parallel /\ max_points = None /\ pc \notin {"start"} /\ historical_ds # "None"
        /\ forecast_ds # "None") =>
        LET cat == ConcatBatches(futures, Len(futures))
            points == valid_lat_lon_tuples
        IN /\ Len(cat) <= Len(points)
           /\ cat = SubSeq(points, 1, Len(cat))
           /\ Len(cat) = points_processed
           /\ (pc # "submit" => Len(cat) = Len(points))
           /\ \A f \in DOMAIN futures :
                /\ f < Len(futures) => Len(BatchPoints(futures[f])) = batch_size
                /\ Len(BatchPoints(futures[f])) \in 1..batch_size

\* C3 witness: an uncapped run of several batches whose last one is short.
C3_Witness ==
    /\ Parallel /\ max_points = None /\ pc = "collect"
    /\ Len(futures) >= 2
    /\ Len(futures[Len(futures)].lat_batch) < batch_size

\* The mapping a run with one worker returns: one batch holding all valid
\* points, with the whole budget.
SingleWorkerMapping ==
    ProcessPointBatch(
        LatBatch(valid_indices, 0, Max(1, num_valid_points \div 1)),
        LonBatch(valid_indices, 0, Max(1, num_valid_points \div 1)),
        BatchLimit(max_points, 0))

\* C4: with the batch size derived from the worker count N (N at most the
\* number of valid points), the returned mapping is the one a single worker
\* returns for the same mask and datasets: same keys, same series.
C4_WorkerCountIndependent ==
    (Parallel /\ pc = "returned" /\ batch_size_arg = None
        /\ historical_ds = "closed"
        /\ num_processes <= num_valid_points) =>
        ret = SingleWorkerMapping

\* C4 witness: a returned run of several workers and several batches.
C4_Witness ==
    /\ Parallel /\ pc = "returned" /\ batch_size_arg = None
    /\ num_processes >= 2 /\ num_processes <= num_valid_points
    /\ Len(futures) >= 2
    /\ Size(ret) >= 2

\* C5: in whatever order the batches complete and are collected, the
\* mapping built equals the collected results merged in submission order
\* and holds one entry for every point the collected workers processed.
C5_MergeOrderIndependent ==
    Parallel =>
        /\ df_dict = MergedInOrder(futures, Len(futures))
        /\ Size(df_dict) = CollectedIterations(futures, Len(futures))
        /\ (pc = "returned" /\ historical_ds = "closed" => ret = df_dict)

\* C5 witness: a later batch was collected before an earlier one finished.
C5_Witness ==
    /\ Parallel /\ pc = "collect"
    /\ Len(futures) >= 2
    /\ futures[2].collected /\ futures[2].state = "finished"
    /\ futures[1].state = "running"
    /\ Size(df_dict) >= 1

\* C6: no dataset is closed, and the run is not over, while a dispatched
\* batch is still pending or running.
C6_CloseAfterWorkers ==
    (Parallel /\ (historical_ds = "closed" \/ forecast_ds = "closed"
                  \/ pc \in {"close", "returned", "raised"})) =>
        Unfinished = {}

\* C6 witness: both datasets closed after several batches finished.
C6_Witness ==
    /\ Parallel /\ pc = "returned"
    /\ historical_ds = "closed" /\ forecast_ds = "closed"
    /\ Len(futures) >= 2
    /\ \A f \in DOMAIN futures : futures[f].state = "finished"

\* C7: a run in which a batch failed never reaches the close or the return
\* and hands no mapping to the caller; the failed batch stays failed.
C7_WorkerFailureIsFatal ==
    (Parallel /\ \E f \in DOMAIN futures : futures[f].state = "failed") =>
        /\ pc \notin {"close", "returned"}
        /\ ret = EmptyDict
        /\ (\A f \in DOMAIN futures : futures[f].collected) => pc \in {"unwind", "raised"}

\* C7 witness: the run raised although another batch's result was merged.
C7_Witness ==
    /\ Parallel /\ pc = "raised"
    /\ \E f \in DOMAIN futures : futures[f].state = "failed"
    /\ \E f \in DOMAIN futures : futures[f].state = "finished" /\ futures[f].collected
    /\ Size(df_dict) >= 1

\* The loader returned None for a dataset the entry point loads.
LoaderReturnedNone ==
    /\ pc # "start"
    /\ CASE entry = "extract_amber_data" -> historical_ds = "None"
         [] entry = "extract_forecast_data" -> forecast_ds = "None"
         [] OTHER -> historical_ds = "None" \/ forecast_ds = "None"

\* C8: when the loader returns None, every extraction entry point ends by
\* returning an empty mapping, never by raising.
C8_NoDatasetIsEmptyResult ==
    (entry \in Entries /\ LoaderReturnedNone) =>
        (pc = "returned" /\ ret = EmptyDict)

\* C9: for an all-false mask every extraction entry point whose datasets
\* were found ends by returning an empty mapping, never by raising.
C9_EmptyMaskIsNoOp ==
    (entry \in Entries /\ num_valid_points = 0 /\ Ended /\ ~LoaderReturnedNone) =>
        (pc = "returned" /\ ret = EmptyDict)

AllMissing(df) == \A n \in 1..Len(df) : df[n].tas = NaN /\ df[n].rsds = NaN

SharedDates(a, b) ==
    {a[n].date : n \in 1..Len(a)} \cap {b[n].date : n \in 1..Len(b)}

\* C10: combining a historical series whose every value is missing with a
\* forecast series yields the forecast series, also when both series hold
\* rows for the same date.
C10_AllMissingHistoricalYieldsForecast ==
    (pc = "combined" /\ AllMissing(historical_df)
        /\ SharedDates(historical_df, forecast_df) # {}) =>
        combined_df = forecast_df

Dates(df) == {df[n].date : n \in 1..Len(df)}

StrictlyIncreasing(df) == \A n \in 1..(Len(df) - 1) : df[n].date < df[n + 1].date

NoDuplicateDate(df) == \A n, m \in 1..Len(df) : df[n].date = df[m].date => n = m

\* The first row of df dated d.
RowAt(df, d) ==
    df[CHOOSE n \in 1..Len(df) :
          df[n].date = d /\ \A m \in 1..(n - 1) : df[m].date # d]

FullyValid(r) == r.tas # NaN /\ r.rsds # NaN

\* The last date of df on which no variable is missing, 0 when there is none.
LastFullyValidDate(df) ==
    IF \E n \in 1..Len(df) : FullyValid(df[n])
    THEN LET n == CHOOSE n \in 1..Len(df) :
                    FullyValid(df[n]) /\ \A m \in (n + 1)..Len(df) : ~FullyValid(df[m])
         IN df[n].date
    ELSE 0

\* Every forecast date that lies before some historical date is itself a
\* historical date (gap-free daily series whose forecast does not start
\* before the historical one are of this kind).
ForecastFillsNoGap(hist, fc) ==
    \A f \in Dates(fc) : (\E h \in Dates(hist) : f < h) => f \in Dates(hist)

C12_CutOffIsLastFullyValidDate ==
    (pc = "combined" /\ LastFullyValidDate(historical_df) # 0) =>
        \A n \in 1..Len(historical_df) :
            historical_df[n].date > LastFullyValidDate(historical_df) =>
                /\ \A m \in 1..Len(combined_df) : combined_df[m] # historical_df[n]
                /\ historical_df[n].date \in Dates(forecast_df) =>
                       RowAt(combined_df, historical_df[n].date)
                           = RowAt(forecast_df, historical_df[n].date)

\* C13: the unit converter does not mutate the frame object it is given:
\* after the call that object still holds the values it was handed over
\* with.
C13_ConverterLeavesInputUnchanged ==
    [][(pc = "frames" /\ pc' = "converted") => given_df' = forecast_df]_vars

\* C14: however the parallel extraction ends (normal return, early empty
\* return because a dataset was not found, or a worker failure), no dataset
\* it opened is still open.
C14_EveryOpenedDatasetIsClosed ==
    (Parallel /\ Ended) => (historical_ds # "open" /\ forecast_ds # "open")

\* The position of a cell in row-major order (latitude index first, then
\* longitude index).
RowMajorRank(c) == (c[1] - 1) * NLon + c[2]

TrueCells == {c \in Cells : mask[c]}

\* The first n true cells in row-major order.
FirstTrueCells(n) ==
    {c \in TrueCells :
        Cardinality({d \in TrueCells : RowMajorRank(d) < RowMajorRank(c)}) < n}

\* The keys of the first min(max_points, k) true cells.
FirstKeys ==
    {PointKey(lat_grid(c[1], c[2]), lon_grid(c[1], c[2])) :
        c \in FirstTrueCells(Min(max_points, num_valid_points))}

\* C15, the parallel extraction: with a positive max_points, whatever the
\* batch size and the completion order, the returned mapping has exactly
\* min(max_points, k) keys, those of the first min(max_points, k) true cells
\* in row-major order.
C15_ParallelReturnsFirstTrueCells ==
    (Parallel /\ max_points > 0 /\ pc = "returned" /\ ~LoaderReturnedNone) =>
        /\ Size(ret) = Min(max_points, num_valid_points)
        /\ DOMAIN ret = FirstKeys

\* C15: with a positive max_points the parallel extraction returns the keys
\* of the first min(max_points, k) true cells in row-major order, and the
\* sequential extraction, for the same mask and cap, returns that same key
\* set.
C15_SameKeysAsSequential ==
    /\ C15_ParallelReturnsFirstTrueCells
    /\ (entry = "extract_variables_over_years" /\ max_points > 0 /\ Ended
            /\ ~LoaderReturnedNone) =>
           (pc = "returned" /\ DOMAIN ret = FirstKeys)

\* The first day of the month six calendar months after the first of month
\* m of year y: the year advances only when m + 6 passes December.
SixMonthsLater(y, m) ==
    IF m + 6 > 12 THEN Date(y + 1, m + 6 - 12, 1) ELSE Date(y, m + 6, 1)

\* C16: for a start date on the first of a month, _calculate_end_date
\* returns the day before the first day of the month six calendar months
\* after the start date (20240501 gives 20241031).
C16_EndDateIsDayBeforeSixMonthsLater ==
    pc = "done" =>
        end_date_str = Strftime(MinusOneDay(SixMonthsLater(year, start_month)))

====
